---- MODULE Spec2Model ----
(***************************************************************************)
(* ReadWriterLock::read_write_lock (src/read_write_lock.h) as a state      *)
(* machine.  Every access to shared state (an atomic, a mutex, a condition *)
(* variable) is one step of the calling thread; a thread's position in the *)
(* code is pc[t].  Every thread loops: when idle it calls start_read or     *)
(* start_write, and later the matching end_read or end_write.              *)
(***************************************************************************)
EXTENDS Integers, FiniteSets, TLC

\* ------------------------------------------------------------------ bounds
NumThreads == 3

Threads == 1..NumThreads
\* Any thread may read and any thread may write.
Readers == Threads
Writers == Threads
NoThread == 0

\* const char NOT_WRITING = 0;
NOT_WRITING == 0

VARIABLES
  pc,               \* position of every thread in the code
  reader_count,     \* std::atomic_int reader_count
  writer_waiting,   \* std::atomic_char writer_waiting
  read_mutex,       \* owner of std::mutex read_mutex, or NoThread
  write_mutex,      \* owner of std::mutex write_mutex, or NoThread
  waiting_to_read,  \* threads blocked in waiting_to_read.wait
  waiting_to_write, \* threads blocked in waiting_to_write.wait
  atCall,           \* history: what reader r saw of writer w when r called start_read
  beforeCall,       \* history: readers admitted when writer w called start_write, still reading
  wokenTogether,    \* history: writers woken by one notify_all, not yet back to waiting
  completed,        \* history: kinds of operation pairs that have run to completion
  lastCheck,        \* history: the last writer_is_not_writing() of a running start_read
                    \*   (zero: the value read was 0; result: the bool returned)
  lastSeen,         \* history: the last read of reader_count by a start_write
                    \*   (drained: the value read was <= 0)
  announced         \* history: threads that ran line 69 and not yet line 82

vars == <<pc, reader_count, writer_waiting, read_mutex, write_mutex,
          waiting_to_read, waiting_to_write,
          atCall, beforeCall, wokenTogether, completed,
          lastCheck, lastSeen, announced>>

lockVars == <<reader_count, writer_waiting, read_mutex, write_mutex,
              waiting_to_read, waiting_to_write>>
callHist == <<atCall, beforeCall, wokenTogether, completed>>
readHist == <<lastCheck, lastSeen, announced>>
histVars == <<callHist, readHist>>

\* ------------------------------------------------------------ pure helpers
\* std::atomic_char arithmetic: signed 8 bit, two's complement.
ToChar(x) == ((x + 128) % 256) - 128

\* std::atomic<T>::compare_exchange_strong(expected, desired) on a cell that
\* holds cur: the cell's new value and the new value of `expected`.
CompareExchangeStrong(cur, expected, desired) ==
  IF cur = expected
    THEN [value |-> desired, expected |-> expected, success |-> TRUE]
    ELSE [value |-> cur, expected |-> cur, success |-> FALSE]

\* Mutant of writer_is_not_writing: new_writer_status is 1 instead of
\* NOT_WRITING, so a successful exchange marks a writer.
writer_is_not_writing_marks(cur) ==
  LET cas == CompareExchangeStrong(cur, NOT_WRITING, NOT_WRITING + 1)
  IN  [value |-> cas.value, result |-> (cas.expected = NOT_WRITING),
       read |-> cas.expected]

\* writer_is_not_writing(): the compare-exchange of lines 90-95 on a cell
\* holding cur.  value: what writer_waiting holds afterwards; result: the bool
\* returned; read: writer_status after the exchange, the value it read.
writer_is_not_writing(cur) ==
  LET cas == CompareExchangeStrong(cur, NOT_WRITING, NOT_WRITING)
  IN  [value |-> cas.value, result |-> (cas.expected = NOT_WRITING),
       read |-> cas.expected]

\* C++ integral promotion of a bool, as in `writer_is_writing != NOT_WRITING`.
BoolToInt(b) == IF b THEN 1 ELSE 0

\* Line 47: does start_read enter the block that waits on waiting_to_read?
EntersWaitBlock(writer_is_writing) == BoolToInt(writer_is_writing) # NOT_WRITING

\* Mutant of ReadersDrained: the writer stops waiting one reader too early.
ReadersDrainedOffByOne(rc) == rc <= 1

\* Mutant of ReadersPresent: one reader is not noticed at line 70.
ReadersPresentOffByOne(rc) == rc > 1

\* Line 70 and the predicate of line 71.
ReadersPresent(rc) == rc > 0
ReadersDrained(rc) == rc <= 0

\* Positions of a writer that has incremented writer_waiting and is waiting
\* for the readers to drain / that holds write admission.
PendingPcs == {"sw_if", "sw_pred", "sw_wait", "sw_blocked"}
HoldingPcs == {"writing"}

\* ------------------------------------------------------------------- Init
\* explicit read_write_lock() : reader_count(0), writer_waiting(0) {}
Init ==
  /\ pc = [t \in Threads |-> "idle"]
  /\ reader_count = 0
  /\ writer_waiting = 0
  /\ read_mutex = NoThread
  /\ write_mutex = NoThread
  /\ waiting_to_read = {}
  /\ waiting_to_write = {}
  /\ atCall = [r \in Readers |-> [w \in Writers |-> "none"]]
  /\ beforeCall = [w \in Writers |-> {}]
  /\ wokenTogether = {}
  /\ completed = {}
  /\ lastCheck = [t \in Threads |-> "none"]
  /\ lastSeen = [t \in Threads |-> "none"]
  /\ announced = {}

Goto(t, l) == pc' = [pc EXCEPT ![t] = l]

\* ------------------------------------------------------------- start_read
\* Line 46-47: the call and its first writer_is_not_writing().
StartRead(t) ==
  /\ pc[t] = "idle"
  /\ LET chk == writer_is_not_writing(writer_waiting)
     IN  /\ writer_waiting' = chk.value
         /\ Goto(t, IF EntersWaitBlock(chk.result) THEN "sr_lock" ELSE "sr_inc")
         /\ lastCheck' = [lastCheck EXCEPT ![t] =
              [zero |-> (chk.read = NOT_WRITING), result |-> chk.result]]
  /\ atCall' = [atCall EXCEPT ![t] =
       [w \in Writers |->
          IF pc[w] \in HoldingPcs THEN "held"
          ELSE IF pc[w] \in PendingPcs /\ beforeCall[w] \ {t} # {}
               THEN "pending"
          ELSE "none"]]
  /\ UNCHANGED <<reader_count, read_mutex, write_mutex, waiting_to_read,
                 waiting_to_write, beforeCall, wokenTogether, completed,
                 lastSeen, announced>>

\* Line 48: std::unique_lock<std::mutex> lock(read_mutex);
SRLock(t) ==
  /\ pc[t] = "sr_lock"
  /\ read_mutex = NoThread
  /\ read_mutex' = t
  /\ Goto(t, "sr_pred")
  /\ UNCHANGED <<reader_count, writer_waiting, write_mutex, waiting_to_read,
                 waiting_to_write>>
  /\ UNCHANGED histVars

\* Line 49: the predicate of waiting_to_read.wait, evaluated holding read_mutex.
SRPred(t) ==
  /\ pc[t] = "sr_pred"
  /\ LET chk == writer_is_not_writing(writer_waiting)
     IN  /\ writer_waiting' = chk.value
         /\ Goto(t, IF chk.result THEN "sr_unlock" ELSE "sr_wait")
         /\ lastCheck' = [lastCheck EXCEPT ![t] =
              [zero |-> (chk.read = NOT_WRITING), result |-> chk.result]]
  /\ UNCHANGED <<reader_count, read_mutex, write_mutex, waiting_to_read,
                 waiting_to_write>>
  /\ UNCHANGED <<callHist, lastSeen, announced>>

\* Line 49: condition_variable::wait(lock) atomically unlocks and blocks.
SRWait(t) ==
  /\ pc[t] = "sr_wait"
  /\ read_mutex' = NoThread
  /\ waiting_to_read' = waiting_to_read \cup {t}
  /\ Goto(t, "sr_blocked")
  /\ UNCHANGED <<reader_count, writer_waiting, write_mutex, waiting_to_write>>
  /\ UNCHANGED histVars

\* Line 49: a woken waiter re-acquires read_mutex and tests the predicate again.
SRRelock(t) ==
  /\ pc[t] = "sr_blocked"
  /\ t \notin waiting_to_read
  /\ read_mutex = NoThread
  /\ read_mutex' = t
  /\ Goto(t, "sr_pred")
  /\ UNCHANGED <<reader_count, writer_waiting, write_mutex, waiting_to_read,
                 waiting_to_write>>
  /\ UNCHANGED histVars

\* Mutant of SRUnlock: the lock is detached (lock.release()) instead of
\* unlocked, so read_mutex stays locked.
SRUnlockKeepsMutex(t) ==
  /\ pc[t] = "sr_unlock"
  /\ Goto(t, "sr_inc")
  /\ UNCHANGED lockVars
  /\ UNCHANGED histVars

\* Line 50: the unique_lock goes out of scope.
SRUnlock(t) ==
  /\ pc[t] = "sr_unlock"
  /\ read_mutex' = NoThread
  /\ Goto(t, "sr_inc")
  /\ UNCHANGED <<reader_count, writer_waiting, write_mutex, waiting_to_read,
                 waiting_to_write>>
  /\ UNCHANGED histVars

\* Mutant of SRInc: reader_count used as a flag, set instead of incremented.
SRIncSetsFlag(t) ==
  /\ pc[t] = "sr_inc"
  /\ reader_count' = 1
  /\ Goto(t, "reading")
  /\ UNCHANGED <<writer_waiting, read_mutex, write_mutex, waiting_to_read,
                 waiting_to_write>>
  /\ UNCHANGED histVars

\* Line 51: reader_count++ (atomic), start_read returns.
SRInc(t) ==
  /\ pc[t] = "sr_inc"
  /\ reader_count' = reader_count + 1
  /\ Goto(t, "reading")
  /\ lastCheck' = [lastCheck EXCEPT ![t] = "none"]
  /\ UNCHANGED <<writer_waiting, read_mutex, write_mutex, waiting_to_read,
                 waiting_to_write>>
  /\ UNCHANGED <<callHist, lastSeen, announced>>

\* --------------------------------------------------------------- end_read
\* Line 56: reader_count-- (atomic).
EndRead(t) ==
  /\ pc[t] = "reading"
  /\ reader_count' = reader_count - 1
  /\ Goto(t, "er_notify")
  /\ atCall' = [atCall EXCEPT ![t] = [w \in Writers |-> "none"]]
  /\ beforeCall' = [w \in Writers |-> beforeCall[w] \ {t}]
  /\ UNCHANGED <<writer_waiting, read_mutex, write_mutex, waiting_to_read,
                 waiting_to_write, wokenTogether, completed>>
  /\ UNCHANGED readHist

\* Line 57: waiting_to_write.notify_all(), end_read returns.
ERNotify(t) ==
  /\ pc[t] = "er_notify"
  /\ waiting_to_write' = {}
  /\ Goto(t, "idle")
  /\ wokenTogether' = IF Cardinality(waiting_to_write) >= 2
                        THEN waiting_to_write ELSE wokenTogether
  /\ completed' = completed \cup {"read"}
  /\ UNCHANGED <<reader_count, writer_waiting, read_mutex, write_mutex,
                 waiting_to_read, atCall, beforeCall>>
  /\ UNCHANGED readHist

\* ------------------------------------------------------------ start_write
\* Line 67: the call; the thread now stands at line 68.
StartWrite(t) ==
  /\ pc[t] = "idle"
  /\ Goto(t, "sw_lock")
  /\ beforeCall' = [beforeCall EXCEPT ![t] = {r \in Readers : pc[r] = "reading"}]
  /\ UNCHANGED lockVars
  /\ UNCHANGED <<atCall, wokenTogether, completed>>
  /\ UNCHANGED readHist

\* Line 68: std::unique_lock<std::mutex> lock(write_mutex);
SWLock(t) ==
  /\ pc[t] = "sw_lock"
  /\ write_mutex = NoThread
  /\ write_mutex' = t
  /\ Goto(t, "sw_inc")
  /\ UNCHANGED <<reader_count, writer_waiting, read_mutex, waiting_to_read,
                 waiting_to_write>>
  /\ UNCHANGED histVars

\* Line 69: writer_waiting += 1;
SWInc(t) ==
  /\ pc[t] = "sw_inc"
  /\ writer_waiting' = ToChar(writer_waiting + 1)
  /\ Goto(t, "sw_if")
  /\ announced' = announced \cup {t}
  /\ UNCHANGED <<reader_count, read_mutex, write_mutex, waiting_to_read,
                 waiting_to_write>>
  /\ UNCHANGED <<callHist, lastCheck, lastSeen>>

\* Line 70: if (reader_count > 0); otherwise line 73, start_write returns
\* with write_mutex still locked.
SWIf(t) ==
  /\ pc[t] = "sw_if"
  /\ Goto(t, IF ReadersPresent(reader_count) THEN "sw_pred" ELSE "writing")
  /\ lastSeen' = [lastSeen EXCEPT ![t] =
       [drained |-> (reader_count <= 0), locked |-> (write_mutex = t),
        marked |-> (t \in announced), line |-> "if"]]
  /\ UNCHANGED lockVars
  /\ UNCHANGED <<callHist, lastCheck, announced>>

\* Line 71: the predicate of waiting_to_write.wait, evaluated holding write_mutex.
SWPred(t) ==
  /\ pc[t] = "sw_pred"
  /\ Goto(t, IF ReadersDrained(reader_count) THEN "writing" ELSE "sw_wait")
  /\ lastSeen' = [lastSeen EXCEPT ![t] =
       [drained |-> (reader_count <= 0), locked |-> (write_mutex = t),
        marked |-> (t \in announced), line |-> "wait"]]
  /\ UNCHANGED lockVars
  /\ UNCHANGED <<callHist, lastCheck, announced>>

\* Line 71: condition_variable::wait(lock) atomically unlocks and blocks.
SWWait(t) ==
  /\ pc[t] = "sw_wait"
  /\ write_mutex' = NoThread
  /\ waiting_to_write' = waiting_to_write \cup {t}
  /\ Goto(t, "sw_blocked")
  /\ wokenTogether' = wokenTogether \ {t}
  /\ UNCHANGED <<reader_count, writer_waiting, read_mutex, waiting_to_read>>
  /\ UNCHANGED <<atCall, beforeCall, completed>>
  /\ UNCHANGED readHist

\* Mutant of SWRelock: the woken waiter goes on without re-acquiring
\* write_mutex.
SWRelockWithoutMutex(t) ==
  /\ pc[t] = "sw_blocked"
  /\ t \notin waiting_to_write
  /\ Goto(t, "sw_pred")
  /\ UNCHANGED lockVars
  /\ UNCHANGED histVars

\* Line 71: a woken waiter re-acquires write_mutex and tests the predicate again.
SWRelock(t) ==
  /\ pc[t] = "sw_blocked"
  /\ t \notin waiting_to_write
  /\ write_mutex = NoThread
  /\ write_mutex' = t
  /\ Goto(t, "sw_pred")
  /\ UNCHANGED <<reader_count, writer_waiting, read_mutex, waiting_to_read,
                 waiting_to_write>>
  /\ UNCHANGED histVars

\* -------------------------------------------------------------- end_write
\* Line 82: writer_waiting -= 1;
EndWrite(t) ==
  /\ pc[t] = "writing"
  /\ writer_waiting' = ToChar(writer_waiting - 1)
  /\ Goto(t, "ew_notify")
  /\ atCall' = [r \in Readers |-> [atCall[r] EXCEPT ![t] = "none"]]
  /\ wokenTogether' = wokenTogether \ {t}
  /\ announced' = announced \ {t}
  /\ lastSeen' = [lastSeen EXCEPT ![t] = "none"]
  /\ UNCHANGED <<reader_count, read_mutex, write_mutex, waiting_to_read,
                 waiting_to_write, beforeCall, completed, lastCheck>>

\* Mutant of EWNotify: line 83 notifies the readers (waiting_to_read) first.
EWNotifyReadersFirst(t) ==
  /\ pc[t] = "ew_notify"
  /\ waiting_to_read' = {}
  /\ Goto(t, "ew_unlock")
  /\ UNCHANGED <<reader_count, writer_waiting, read_mutex, write_mutex,
                 waiting_to_write>>
  /\ UNCHANGED histVars

\* Line 83: waiting_to_write.notify_all();
EWNotify(t) ==
  /\ pc[t] = "ew_notify"
  /\ waiting_to_write' = {}
  /\ Goto(t, "ew_unlock")
  /\ wokenTogether' = IF Cardinality(waiting_to_write) >= 2
                        THEN waiting_to_write ELSE wokenTogether
  /\ UNCHANGED <<reader_count, writer_waiting, read_mutex, write_mutex,
                 waiting_to_read, atCall, beforeCall, completed>>
  /\ UNCHANGED readHist

\* Mutant of EWUnlock: end_write returns without unlocking write_mutex.
EWUnlockForgotten(t) ==
  /\ pc[t] = "ew_unlock"
  /\ Goto(t, "ew_notify_read")
  /\ UNCHANGED lockVars
  /\ UNCHANGED histVars

\* Line 84: write_mutex.unlock();
EWUnlock(t) ==
  /\ pc[t] = "ew_unlock"
  /\ write_mutex' = NoThread
  /\ Goto(t, "ew_notify_read")
  /\ UNCHANGED <<reader_count, writer_waiting, read_mutex, waiting_to_read,
                 waiting_to_write>>
  /\ UNCHANGED histVars

\* Line 85: waiting_to_read.notify_all(), end_write returns.
EWNotifyRead(t) ==
  /\ pc[t] = "ew_notify_read"
  /\ waiting_to_read' = {}
  /\ Goto(t, "idle")
  /\ completed' = completed \cup {"write"}
  /\ UNCHANGED <<reader_count, writer_waiting, read_mutex, write_mutex,
                 waiting_to_write, atCall, beforeCall, wokenTogether>>
  /\ UNCHANGED readHist

\* ------------------------------------------------------- spurious wake-up
\* std::condition_variable::wait may return without a notification.
SpuriousWake(t) ==
  /\ \/ /\ t \in waiting_to_read
        /\ waiting_to_read' = waiting_to_read \ {t}
        /\ UNCHANGED waiting_to_write
     \/ /\ t \in waiting_to_write
        /\ waiting_to_write' = waiting_to_write \ {t}
        /\ UNCHANGED waiting_to_read
  /\ UNCHANGED <<pc, reader_count, writer_waiting, read_mutex, write_mutex>>
  /\ UNCHANGED histVars

\* ------------------------------------------------------------------- Next
ReaderStep(t) ==
  \/ StartRead(t) \/ SRLock(t) \/ SRPred(t) \/ SRWait(t) \/ SRRelock(t)
  \/ SRUnlock(t) \/ SRInc(t) \/ EndRead(t) \/ ERNotify(t)

WriterStep(t) ==
  \/ StartWrite(t) \/ SWLock(t) \/ SWInc(t) \/ SWIf(t) \/ SWPred(t)
  \/ SWWait(t) \/ SWRelock(t) \/ EndWrite(t) \/ EWNotify(t) \/ EWUnlock(t)
  \/ EWNotifyRead(t)

Next ==
  \/ \E t \in Readers : ReaderStep(t)
  \/ \E t \in Writers : WriterStep(t)
  \/ \E t \in Threads : SpuriousWake(t)

Spec == Init /\ [][Next]_vars

\* ---------------------------------------------------------------- fairness
\* Once called, an operation keeps running: every step inside an operation
\* is weakly fair, and a thread contending for a mutex eventually gets it
\* (strongly fair).  Calling an operation is the caller's choice (no
\* fairness), and a spurious wake-up is never owed.
ReaderRuns(t) == SRPred(t) \/ SRWait(t) \/ SRUnlock(t) \/ SRInc(t) \/ ERNotify(t)
ReaderLocks(t) == SRLock(t) \/ SRRelock(t)
WriterRuns(t) ==
  SWInc(t) \/ SWIf(t) \/ SWPred(t) \/ SWWait(t) \/ EWNotify(t) \/ EWUnlock(t)
  \/ EWNotifyRead(t)
WriterLocks(t) == SWLock(t) \/ SWRelock(t)

Fairness ==
  /\ \A t \in Readers : WF_vars(ReaderRuns(t)) /\ SF_vars(ReaderLocks(t))
  /\ \A t \in Writers : WF_vars(WriterRuns(t)) /\ SF_vars(WriterLocks(t))

FairSpec == Init /\ [][Next]_vars /\ Fairness

\* One writer thread, and readers that keep calling start_read and always
\* call end_read after being admitted.
TheWriter == CHOOSE t \in Threads : \A u \in Threads : t <= u
TheReaders == Threads \ {TheWriter}

NextOneWriter ==
  \/ \E t \in TheReaders : ReaderStep(t)
  \/ WriterStep(TheWriter)
  \/ \E t \in Threads : SpuriousWake(t)

FairOneWriterSpec ==
  /\ Init /\ [][NextOneWriter]_vars
  /\ \A t \in TheReaders :
       /\ WF_vars(ReaderRuns(t) \/ StartRead(t) \/ EndRead(t))
       /\ SF_vars(ReaderLocks(t))
  /\ WF_vars(WriterRuns(TheWriter) \/ EndWrite(TheWriter))
  /\ SF_vars(WriterLocks(TheWriter))

\* ------------------------------------------------------------------ claims
HoldsWrite(w) == pc[w] \in HoldingPcs
Admitted(r) == pc[r] = "reading"
InStartWrite(w) ==
  pc[w] \in {"sw_lock", "sw_inc", "sw_if", "sw_pred", "sw_wait", "sw_blocked"}
InEndWrite(w) == pc[w] \in {"ew_notify", "ew_unlock", "ew_notify_read"}
NoWriter == \A w \in Writers : ~(InStartWrite(w) \/ HoldsWrite(w) \/ InEndWrite(w))
Quiescent == \A t \in Threads : pc[t] = "idle"

\* C1: no thread holds write admission while reader_count > 0.
C1_ReaderWriterExclusion ==
  \A w \in Writers : HoldsWrite(w) => reader_count <= 0

\* C2: at most one thread is between the return of its start_write and the
\* release of write_mutex in its end_write.
C2_WriterMutualExclusion ==
  Cardinality({w \in Writers : pc[w] \in {"writing", "ew_notify", "ew_unlock"}}) <= 1

\* C2 witness: two writers woken by the same notify_all; one holds write
\* admission, the other is awake and still contending for write_mutex.
C2_Witness ==
  \E w1 \in wokenTogether : \E w2 \in wokenTogether \ {w1} :
    /\ pc[w1] = "writing"
    /\ pc[w2] = "sw_blocked" /\ w2 \notin waiting_to_write

\* C3: a reader that called start_read while writer w held write admission
\* is not admitted before w's end_write.
C3_NoAdmissionWhileWriterHolds ==
  \A r \in Readers : \A w \in Writers : Admitted(r) => atCall[r][w] # "held"

\* C4: a reader that called start_read while writer w was pending (waiting
\* for a reader admitted before w's call) is not admitted before w's end_write.
C4_NoAdmissionWhileWriterPending ==
  \A r \in Readers : \A w \in Writers : Admitted(r) => atCall[r][w] # "pending"

\* C5: a writer holds write admission only after every reader admitted before
\* its call has called end_read, and end_read is never blocked.
C5_WriterWaitsOutEarlierReaders ==
  /\ \A w \in Writers : HoldsWrite(w) => beforeCall[w] = {}
  /\ \A r \in Readers : pc[r] = "reading" => ENABLED EndRead(r)
  /\ \A r \in Readers : pc[r] = "er_notify" => ENABLED ERNotify(r)

\* C5 witness: a writer is blocked inside start_write while a reader admitted
\* before its call has not yet called end_read.
C5_Witness ==
  \E w \in Writers : pc[w] = "sw_blocked" /\ beforeCall[w] # {}

\* C6: with one writer thread, readers that keep calling start_read and
\* always call end_read, and fair scheduling, every start_write returns.
C6_WriterNotStarved == InStartWrite(TheWriter) ~> HoldsWrite(TheWriter)

\* C7: under fair scheduling, if from some point on no thread is inside
\* start_write, the write or end_write, every reader suspended in start_read
\* is eventually admitted.
C7_BlockedReadersReleased ==
  (<>[]NoWriter) =>
    \A r \in Readers : (pc[r] \in {"sr_wait", "sr_blocked"}) ~> Admitted(r)

\* C9: in every quiescent state reader_count = 0, writer_waiting = 0 and
\* write_mutex is unlocked.
C9_NoDrift ==
  Quiescent => reader_count = 0 /\ writer_waiting = 0 /\ write_mutex = NoThread

\* C9 witness: a quiescent state after completed read and write cycles.
C9_Witness == Quiescent /\ completed = {"read", "write"}

\* C10: reader_count is the number of readers admitted by start_read that
\* have not yet called end_read, and is never negative.
C10_ReaderCountExact ==
  /\ reader_count = Cardinality({r \in Readers : Admitted(r)})
  /\ reader_count >= 0

\* C10 witness: after completed reads, several readers are admitted at once.
C10_Witness == "read" \in completed /\ reader_count >= 2

\* ------------------------------------------------- executions with no writer
\* No thread ever calls start_write.  The predicate of line 49 is then never
\* false, so no thread enters waiting_to_read.wait; a thread that did reach
\* "sr_wait" would stay there.  Calling start_read and end_read is the
\* caller's choice: an admitted reader may keep its admission forever.
ReadersOnlyRuns(t) == SRPred(t) \/ SRUnlock(t) \/ SRInc(t) \/ ERNotify(t)

NextReadersOnly ==
  \E t \in Readers :
    \/ StartRead(t) \/ SRLock(t) \/ SRPred(t) \/ SRUnlock(t) \/ SRInc(t)
    \/ EndRead(t) \/ ERNotify(t)

FairReadersOnlySpec ==
  /\ Init /\ [][NextReadersOnly]_vars
  /\ \A t \in Readers : WF_vars(ReadersOnlyRuns(t)) /\ SF_vars(SRLock(t))

InStartRead(t) ==
  pc[t] \in {"sr_lock", "sr_pred", "sr_wait", "sr_blocked", "sr_unlock", "sr_inc"}

\* C8: with no writer, every start_read returns, whatever the other readers
\* do (none of them is required to call end_read).
C8_ReadersNeverBlockEachOther ==
  \A t \in Readers : InStartRead(t) ~> Admitted(t)

\* C8 witness: every thread holds read admission at once.
C8_Witness ==
  /\ \A t \in Readers : Admitted(t)
  /\ reader_count = NumThreads

\* C11: start_read increments reader_count only if the last value of
\* writer_waiting it read through writer_is_not_writing was 0.
C11_IncrementOnlyAfterZero ==
  \A t \in Readers : pc[t] = "sr_inc" => lastCheck[t].zero

\* C12, in the case the claim names: while a writer w2 that has called
\* start_write waits at line 68 behind a writer w1 that is in end_write,
\* writer_waiting > 0.
C12_PendingMarkedImmediately ==
  \A w2 \in Writers :
    (pc[w2] = "sw_lock" /\ \E w1 \in Writers \ {w2} : InEndWrite(w1))
      => writer_waiting > 0

\* C13: every end_write decrements writer_waiting first (alone), then
\* notifies waiting_to_write while it still owns write_mutex, then unlocks
\* write_mutex (no thread is left in waiting_to_write), and only then notifies
\* waiting_to_read.
InEndWriteCall(t) == pc[t] \in {"writing", "ew_notify", "ew_unlock", "ew_notify_read"}

C13_EndWriteOrder ==
  [][\A t \in Writers :
       (InEndWriteCall(t) /\ pc'[t] # pc[t]) =>
         /\ writer_waiting' # writer_waiting =>
              /\ t \in announced /\ write_mutex = t
              /\ writer_waiting' = ToChar(writer_waiting - 1)
              /\ UNCHANGED <<write_mutex, waiting_to_write, waiting_to_read>>
         /\ waiting_to_write' # waiting_to_write =>
              /\ t \notin announced /\ write_mutex = t
              /\ waiting_to_write' = {}
              /\ UNCHANGED <<write_mutex, waiting_to_read>>
         /\ write_mutex' # write_mutex =>
              /\ t \notin announced /\ write_mutex = t /\ waiting_to_write = {}
              /\ write_mutex' = NoThread
              /\ UNCHANGED waiting_to_read
         /\ waiting_to_read' # waiting_to_read =>
              /\ t \notin announced /\ write_mutex # t
              /\ waiting_to_read' = {}
    ]_vars

\* C13 witness: an end_write that has decremented, notified the writers and
\* unlocked is about to wake readers blocked in start_read.
C13_Witness ==
  \E t \in Writers :
    /\ pc[t] = "ew_notify_read" /\ waiting_to_read # {}
    /\ t \notin announced /\ write_mutex # t

\* C15: a thread that holds write admission owns write_mutex and is counted
\* in writer_waiting, and still owns write_mutex when it reaches line 84.
C15_HolderOwnsMutex ==
  \A t \in Writers :
    /\ HoldsWrite(t) => write_mutex = t /\ writer_waiting >= 1
    /\ pc[t] \in {"ew_notify", "ew_unlock"} => write_mutex = t

\* C15 witness: a writer that released write_mutex in waiting_to_write.wait,
\* was woken together with another writer and now holds write admission.
C15_Witness ==
  \E t \in wokenTogether : HoldsWrite(t) /\ write_mutex = t

\* C16: when start_write has returned, the last value of reader_count it read
\* was <= 0, read while it owned write_mutex and after its writer_waiting += 1.
C16_AdmittedAfterDrain ==
  \A t \in Writers :
    HoldsWrite(t) =>
      lastSeen[t].drained /\ lastSeen[t].locked /\ lastSeen[t].marked

\* C16 witness: a writer admitted by the predicate of line 71, readers drained.
C16_Witness ==
  \E t \in Writers : HoldsWrite(t) /\ lastSeen[t].line = "wait" /\ reader_count = 0

\* ------------------------------------- writer_is_not_writing on every value
\* writer_waiting starts at any value a char can hold (its signedness is the
\* implementation's choice) and threads call start_read / end_read.
CharMin == -128
UCharMax == 255

InitAnyWaiting ==
  /\ pc = [t \in Threads |-> "idle"]
  /\ reader_count = 0
  /\ writer_waiting \in CharMin..UCharMax
  /\ read_mutex = NoThread
  /\ write_mutex = NoThread
  /\ waiting_to_read = {}
  /\ waiting_to_write = {}
  /\ atCall = [r \in Readers |-> [w \in Writers |-> "none"]]
  /\ beforeCall = [w \in Writers |-> {}]
  /\ wokenTogether = {}
  /\ completed = {}
  /\ lastCheck = [t \in Threads |-> "none"]
  /\ lastSeen = [t \in Threads |-> "none"]
  /\ announced = {}

AnyWaitingSpec == InitAnyWaiting /\ [][NextReadersOnly]_vars

\* C14: a call of writer_is_not_writing leaves writer_waiting unchanged, reads
\* its value and returns true exactly when that value is 0; start_read and
\* end_read never change writer_waiting.
C14_CasIsALoad ==
  [][\A t \in Readers :
       /\ (pc[t] \in {"idle", "sr_pred"} /\ pc'[t] \notin {pc[t], "sw_lock"}) =>
            /\ writer_waiting' = writer_waiting
            /\ writer_is_not_writing(writer_waiting).read = writer_waiting
            /\ lastCheck'[t].zero = (writer_waiting = 0)
            /\ lastCheck'[t].result = (writer_waiting = 0)
       /\ (InStartRead(t) \/ pc[t] \in {"reading", "er_notify"}) /\ pc'[t] # pc[t]
            => writer_waiting' = writer_waiting
    ]_vars

\* C14 witness: start_read has checked a non-zero writer_waiting, got false
\* and left the value as it was.
C14_Witness ==
  \E t \in Readers :
    pc[t] = "sr_inc" /\ ~lastCheck[t].result /\ writer_waiting = CharMin

====
